---------------------------- MODULE Spec2Model ----------------------------
(***************************************************************************)
(* Model of update_spy_signals.py: the SPY signals updater.                *)
(*                                                                         *)
(* run() is a linear pipeline: download one year of daily closes, refuse   *)
(* fewer than 210 rows, compute RSI(2) and SMA(200), threshold them into   *)
(* three 0/1 signals, fetch a headline, and dump the record to             *)
(* spy_signals.json.  Each statement group of run() is one action;  the    *)
(* file on disk is part of the state so that what a reader can see between *)
(* open() and the end of json.dump() is visible to the invariants.         *)
(*                                                                         *)
(* Numbers.  The program computes in IEEE doubles.  The model computes in  *)
(* exact extended rationals <<n, d>> (d > 0, lowest terms), with           *)
(* <<1, 0>> = +inf, <<-1, 0>> = -inf and <<0, 0>> = NaN, which keeps the   *)
(* cases the code depends on: NaN from diff()/min_periods/rolling, the     *)
(* 0 -> inf replacement in calc_rsi, x / inf = 0, and comparisons with NaN *)
(* being false.  Closing prices are integers in units of 1/PriceScale      *)
(* dollar, so that rounding to 2 decimals is not the identity.             *)
(***************************************************************************)
EXTENDS Integers, Sequences, FiniteSets, TLC

(***************************************************************************)
(* Program constants.                                                      *)
(***************************************************************************)
MinRows == 210
SmaWindow == 200
RsiPeriod == 2
RsiThreshold == 30
RoundDigits == 2

(***************************************************************************)
(* Bounds of the model.                                                    *)
(***************************************************************************)
PriceScale == 1000
BasePrice == 5000
MaxExtra == 1
TicksPerSec == 2
MaxClock == 2
MaxRuns == 2

(***************************************************************************)
(* Extended rational arithmetic (the float operations the code uses).      *)
(***************************************************************************)
Abs(n) == IF n < 0 THEN -n ELSE n

Sign(n) == IF n < 0 THEN -1 ELSE IF n > 0 THEN 1 ELSE 0

RECURSIVE Gcd(_, _)
Gcd(a, b) == IF b = 0 THEN a ELSE Gcd(b, a % b)

NaN == <<0, 0>>

Inf == <<1, 0>>

IsNaN(x) == x[1] = 0 /\ x[2] = 0

IsInf(x) == x[1] # 0 /\ x[2] = 0

IsFinite(x) == x[2] > 0

\* n/d in lowest terms with a positive denominator (d # 0).
Norm(n, d) ==
    LET g == Gcd(Abs(n), Abs(d))
        s == IF d < 0 THEN -1 ELSE 1
    IN  <<(s * n) \div g, (s * d) \div g>>

Rat(n) == <<n, 1>>

Neg(x) == <<-x[1], x[2]>>

Add(x, y) ==
    IF IsNaN(x) \/ IsNaN(y) THEN NaN
    ELSE IF IsInf(x) /\ IsInf(y) THEN (IF x[1] = y[1] THEN x ELSE NaN)
    ELSE IF IsInf(x) THEN x
    ELSE IF IsInf(y) THEN y
    ELSE LET g == Gcd(x[2], y[2])
         IN  Norm(x[1] * (y[2] \div g) + y[1] * (x[2] \div g),
                  x[2] * (y[2] \div g))

Sub(x, y) == Add(x, Neg(y))

Mul(x, y) ==
    IF IsNaN(x) \/ IsNaN(y) THEN NaN
    ELSE IF IsInf(x) \/ IsInf(y)
         THEN (IF x[1] = 0 \/ y[1] = 0 THEN NaN
               ELSE <<Sign(x[1]) * Sign(y[1]), 0>>)
    ELSE LET a == Norm(x[1], y[2])
             b == Norm(y[1], x[2])
         IN  <<a[1] * b[1], a[2] * b[2]>>

\* IEEE division: x / inf = 0, x / 0 = +-inf, 0 / 0 = inf / inf = NaN.
Div(x, y) ==
    IF IsNaN(x) \/ IsNaN(y) THEN NaN
    ELSE IF IsInf(y) THEN (IF IsInf(x) THEN NaN ELSE Rat(0))
    ELSE IF y[1] = 0 THEN (IF x[1] = 0 THEN NaN ELSE <<Sign(x[1]), 0>>)
    ELSE IF IsInf(x) THEN <<Sign(x[1]) * Sign(y[1]), 0>>
    ELSE Mul(x, Norm(y[2], y[1]))

\* x < y on floats: false as soon as one side is NaN.
Less(x, y) ==
    IF IsNaN(x) \/ IsNaN(y) THEN FALSE
    ELSE IF IsInf(x) \/ IsInf(y)
         THEN (IF IsInf(x) /\ IsInf(y) THEN x[1] < y[1]
               ELSE IF IsInf(x) THEN x[1] < 0
               ELSE y[1] > 0)
    ELSE LET g == Gcd(x[2], y[2])
         IN  x[1] * (y[2] \div g) < y[1] * (x[2] \div g)

RECURSIVE Pow10(_)
Pow10(k) == IF k = 0 THEN 1 ELSE 10 * Pow10(k - 1)

\* The integer nearest to n/d (d > 0), ties to the even one.
RoundHalfEven(n, d) ==
    LET q == n \div d
        r == n % d
    IN  IF 2 * r < d THEN q
        ELSE IF 2 * r > d THEN q + 1
        ELSE IF q % 2 = 0 THEN q ELSE q + 1

\* float(round(x, digits)): NaN and the infinities pass through.
Round(x, digits) ==
    IF ~IsFinite(x) THEN x
    ELSE LET p == Pow10(digits)
             s == Norm(x[1], x[2])
         IN  Norm(RoundHalfEven(p * s[1], s[2]), p)

(***************************************************************************)
(* pandas Series operations used by calc_rsi and run.  A Series is a       *)
(* sequence of extended rationals, 1-indexed; iloc[-1] is s[Len(s)].       *)
(***************************************************************************)
\* df["Close"].squeeze(): the closes, in dollars.
Close(d) == [i \in 1..Len(d) |-> Norm(d[i], PriceScale)]

\* series.diff(): NaN at the first index.
Diff(s) == [i \in DOMAIN s |-> IF i = 1 THEN NaN ELSE Sub(s[i], s[i - 1])]

\* x.clip(lower=0) on one element: NaN stays NaN.
ClipLower(x) == IF Less(x, Rat(0)) THEN Rat(0) ELSE x

\* x.clip(upper=0) on one element.
ClipUpper(x) == IF Less(Rat(0), x) THEN Rat(0) ELSE x

Gain(delta) == [i \in DOMAIN delta |-> ClipLower(delta[i])]

Loss(delta) == [i \in DOMAIN delta |-> Neg(ClipUpper(delta[i]))]

\* Number of non-NaN observations among xs[lo..hi].  (The recursions over
\* a Series split their range in halves: a year of rows is deeper than the
\* evaluator's stack when walked one row per call.)
RECURSIVE NObs(_, _, _)
NObs(xs, lo, hi) ==
    IF hi < lo THEN 0
    ELSE IF lo = hi THEN (IF IsNaN(xs[lo]) THEN 0 ELSE 1)
    ELSE LET mid == (lo + hi) \div 2
         IN  NObs(xs, lo, mid) + NObs(xs, mid + 1, hi)

\* One step of ewm(alpha, adjust=False):
\* y[t] = (1 - alpha) * y[t-1] + alpha * x[t], started at the first
\* observation that is not NaN.  (The only NaN of a diff() of finite prices
\* is the leading one.)
EwmStep(prev, x, alpha) ==
    IF IsNaN(x) THEN prev
    ELSE IF IsNaN(prev) THEN x
    ELSE Add(Mul(Sub(Rat(1), alpha), prev), Mul(alpha, x))

\* The recursion run over xs[lo..hi], in index order, from the value y0.
RECURSIVE EwmFold(_, _, _, _, _)
EwmFold(xs, alpha, y0, lo, hi) ==
    IF hi < lo THEN y0
    ELSE IF lo = hi THEN EwmStep(y0, xs[lo], alpha)
    ELSE LET mid  == (lo + hi) \div 2
             left == EwmFold(xs, alpha, y0, lo, mid)
         IN  IF IsNaN(left)    \* no observation yet: the next one starts it
             THEN EwmFold(xs, alpha, NaN, mid + 1, hi)
             ELSE EwmFold(xs, alpha, left, mid + 1, hi)

\* ewm(alpha, adjust=False) at index i, before min_periods is applied.
EwmRaw(xs, alpha, i) == EwmFold(xs, alpha, NaN, 1, i)

\* xs.ewm(alpha=alpha, min_periods=minp, adjust=False).mean() at index i.
EwmMean(xs, alpha, minp, i) ==
    IF NObs(xs, 1, i) < minp THEN NaN ELSE EwmRaw(xs, alpha, i)

\* avg_loss.replace(0, float("inf")) on one element.
ReplaceZeroWithInf(x) == IF IsFinite(x) /\ x[1] = 0 THEN Inf ELSE x

\* A slip in the last line of calc_rsi: 100 / (1 + rs) without the "100 -".
RsiAtNoComplement(series, period, i) ==
    LET delta    == Diff(series)
        alpha    == Div(Rat(1), Rat(period))
        avg_gain == EwmMean(Gain(delta), alpha, period, i)
        avg_loss == EwmMean(Loss(delta), alpha, period, i)
        rs       == Div(avg_gain, ReplaceZeroWithInf(avg_loss))
    IN  Div(Rat(100), Add(Rat(1), rs))

\* calc_rsi(series, period) at index i.
RsiAt(series, period, i) ==
    LET delta    == Diff(series)
        alpha    == Div(Rat(1), Rat(period))
        avg_gain == EwmMean(Gain(delta), alpha, period, i)
        avg_loss == EwmMean(Loss(delta), alpha, period, i)
        rs       == Div(avg_gain, ReplaceZeroWithInf(avg_loss))
    IN  Sub(Rat(100), Div(Rat(100), Add(Rat(1), rs)))

calc_rsi(series, period) ==
    [i \in DOMAIN series |-> RsiAt(series, period, i)]

\* s[lo] + ... + s[hi].
RECURSIVE SumRange(_, _, _)
SumRange(s, lo, hi) ==
    IF hi < lo THEN Rat(0)
    ELSE IF lo = hi THEN s[lo]
    ELSE LET mid == (lo + hi) \div 2
         IN  Add(SumRange(s, lo, mid), SumRange(s, mid + 1, hi))

\* series.rolling(window).mean(): NaN until window observations exist.
RollingMean(s, window) ==
    [i \in DOMAIN s |->
        IF i < window THEN NaN
        ELSE Div(SumRange(s, i - window + 1, i), Rat(window))]

(***************************************************************************)
(* The values run() derives from the fetched frame (lines 42-54).          *)
(***************************************************************************)
NoIndicators ==
    [computed |-> FALSE, last_close |-> NaN, last_rsi2 |-> NaN,
     last_sma200 |-> NaN, rsi2_below_30 |-> 0, three_lower |-> 0,
     above_sma200 |-> 0]

\* Line 52 with <= for <.
RsiBelow30Inclusive(last_rsi2) ==
    IF ~Less(Rat(RsiThreshold), last_rsi2) /\ ~IsNaN(last_rsi2) THEN 1 ELSE 0

\* Line 54 with >= for >.
AboveSma200NotStrict(last_close, last_sma200) ==
    IF ~Less(last_close, last_sma200) /\ ~IsNaN(last_sma200) THEN 1 ELSE 0

\* Line 52.
RsiBelow30(last_rsi2) == IF Less(last_rsi2, Rat(RsiThreshold)) THEN 1 ELSE 0

\* Line 53 with <= for <.
ThreeLowerNotStrict(close) ==
    LET n == Len(close)
    IN  IF ~Less(close[n - 1], close[n]) /\ ~Less(close[n - 2], close[n - 1])
        THEN 1 ELSE 0

\* Line 53: close.iloc[-1] < close.iloc[-2] < close.iloc[-3].
ThreeLower(close) ==
    LET n == Len(close)
    IN  IF Less(close[n], close[n - 1]) /\ Less(close[n - 1], close[n - 2])
        THEN 1 ELSE 0

\* Line 54.
AboveSma200(last_close, last_sma200) ==
    IF Less(last_sma200, last_close) THEN 1 ELSE 0

Indicators(d) ==
    LET close       == Close(d)
        n           == Len(close)
        rsi2        == calc_rsi(close, RsiPeriod)
        sma200      == RollingMean(close, SmaWindow)
        last_close  == Round(close[n], RoundDigits)
        last_rsi2   == Round(rsi2[n], RoundDigits)
        last_sma200 == Round(sma200[n], RoundDigits)
    IN  [computed      |-> TRUE,
         last_close    |-> last_close,
         last_rsi2     |-> last_rsi2,
         last_sma200   |-> last_sma200,
         rsi2_below_30 |-> RsiBelow30(last_rsi2),
         three_lower   |-> ThreeLower(close),
         above_sma200  |-> AboveSma200(last_close, last_sma200)]

\* The guard of line 39 with the bound off by one.
NotEnoughDataOffByOne(d) == Len(d) = 0 \/ Len(d) < MinRows - 1

\* The guard of line 39: df.empty or len(df) < 210.
NotEnoughData(d) == Len(d) = 0 \/ Len(d) < MinRows

(***************************************************************************)
(* fetch_spy_news.  What yf.Ticker("SPY").news does is the environment's:  *)
(* it raises, or yields a list of items; an item may lack "content" or     *)
(* its "title".  The result says whether an exception left the function.   *)
(***************************************************************************)
NoResponse == [raises |-> FALSE, items |-> <<>>]

NewsResponses ==
    { [raises |-> TRUE, items |-> <<>>],
      NoResponse,
      [raises |-> FALSE,
       items |-> <<[hasContent |-> FALSE, hasTitle |-> FALSE, title |-> ""]>>],
      [raises |-> FALSE,
       items |-> <<[hasContent |-> TRUE, hasTitle |-> TRUE,
                    title |-> "Stocks close higher"]>>] }

\* fetch_spy_news without its try/except: the exception leaves the function.
fetch_spy_news_uncaught(resp) ==
    [raised |-> resp.raises,
     value  |-> IF resp.raises THEN ""
                ELSE IF resp.items # <<>>
                     THEN (IF resp.items[1].hasContent /\ resp.items[1].hasTitle
                           THEN resp.items[1].title ELSE "")
                ELSE ""]

fetch_spy_news(resp) ==
    [raised |-> FALSE,
     value  |-> IF resp.raises THEN ""
                ELSE IF resp.items # <<>>
                     THEN (IF resp.items[1].hasContent /\ resp.items[1].hasTitle
                           THEN resp.items[1].title ELSE "")
                ELSE ""]

(***************************************************************************)
(* The record and the file.  The clock counts ticks of 1/TicksPerSec       *)
(* second; strftime("%Y-%m-%dT%H:%M:%SZ") keeps whole seconds.             *)
(***************************************************************************)
Strftime(now) == ToString(now \div TicksPerSec)

NoPayload ==
    [ticker |-> "", rsi_2_below_30 |-> 0, three_lower_closes |-> 0,
     above_sma200 |-> 0,
     metrics |-> [last_close |-> NaN, rsi2 |-> NaN, sma200 |-> NaN, news |-> ""],
     updated_at |-> ""]

Payload(i, headline, now) ==
    [ticker             |-> "SPY",
     rsi_2_below_30     |-> i.rsi2_below_30,
     three_lower_closes |-> i.three_lower,
     above_sma200       |-> i.above_sma200,
     metrics            |-> [last_close |-> i.last_close,
                             rsi2       |-> i.last_rsi2,
                             sma200     |-> i.last_sma200,
                             news       |-> headline],
     updated_at         |-> Strftime(now)]

NumEntry(k, x) == [key |-> k, num |-> x, str |-> ""]

StrEntry(k, t) == [key |-> k, num |-> NaN, str |-> t]

\* json.dump(payload, f, indent=4): the text of the record, one entry per
\* key in the order of the dict.
Serialize(p) ==
    << StrEntry("ticker", p.ticker),
       NumEntry("rsi_2_below_30", Rat(p.rsi_2_below_30)),
       NumEntry("three_lower_closes", Rat(p.three_lower_closes)),
       NumEntry("above_sma200", Rat(p.above_sma200)),
       NumEntry("metrics.last_close", p.metrics.last_close),
       NumEntry("metrics.rsi2", p.metrics.rsi2),
       NumEntry("metrics.sma200", p.metrics.sma200),
       StrEntry("metrics.news", p.metrics.news),
       StrEntry("updated_at", p.updated_at) >>

Keys == [i \in 1..Len(Serialize(NoPayload)) |-> Serialize(NoPayload)[i].key]

\* What a reader of spy_signals.json can parse: one whole record.
IsRecord(content) ==
    /\ Len(content) = Len(Keys)
    /\ \A i \in 1..Len(Keys) : content[i].key = Keys[i]

\* open(out, "a"): the stored text is kept.
OpenForAppend(f) == [exists |-> TRUE, content |-> f.content]

\* open(out, "w") on the stored file: it exists afterwards, and is empty.
OpenForWrite(f) == [exists |-> TRUE, content |-> <<>>]

\* f.write of the first k entries of text at the end of the file.
WriteEntries(f, text, k) ==
    [exists |-> f.exists, content |-> f.content \o SubSeq(text, 1, k)]

NoFile == [exists |-> FALSE, content |-> <<>>]

OldIndicators ==
    [computed |-> TRUE, last_close |-> Rat(5), last_rsi2 |-> Rat(50),
     last_sma200 |-> Rat(4), rsi2_below_30 |-> 0, three_lower |-> 0,
     above_sma200 |-> 1]

\* A snapshot left by an earlier run.
OldFile ==
    [exists |-> TRUE,
     content |-> Serialize(Payload(OldIndicators, "Old headline", 0))]

(***************************************************************************)
(* The price series the provider can return.  A frame is kept in the state *)
(* in a short form: `days` closes starting at `base` and moving by `step`  *)
(* a day, followed by the closes listed in `last`; Rows gives its rows.    *)
(***************************************************************************)
Ramp(base, step, n) == [i \in 1..n |-> base + step * (i - 1)]

Rows(f) == Ramp(f.base, f.step, f.days) \o f.last

NoFrame == [base |-> 0, step |-> 0, days |-> 0, last |-> <<>>]

\* Three more closes after the close `last`, moving by t[1], t[2], t[3].
LastThree(last, t) ==
    <<last + t[1], last + t[1] + t[2], last + t[1] + t[2] + t[3]>>

SmallMoves == {-1, 0, 1}

Tails ==
    (SmallMoves \X SmallMoves \X SmallMoves)
        \cup {<<0, 1204, -1405>>, <<0, 0, -500>>}

Steps == {-1, 0, 1}

LongFeed(step, extra, t) ==
    LET n == MinRows - 3 + extra
    IN  [base |-> BasePrice, step |-> step, days |-> n,
         last |-> LastThree(BasePrice + step * (n - 1), t)]

LongFeeds ==
    { LongFeed(step, extra, t) : step \in Steps, extra \in 0..MaxExtra, t \in Tails }

ShortFeeds ==
    { [base |-> BasePrice, step |-> step, days |-> n, last |-> <<>>] :
        step \in Steps, n \in {0, 1, 3, MinRows - 1} }

Feeds == LongFeeds \cup ShortFeeds

RepeatFeeds ==
    { LongFeed(0, 0, <<0, 0, -1>>), LongFeed(1, 0, <<1, 1, 1>>),
      [base |-> BasePrice, step |-> 0, days |-> MinRows - 1, last |-> <<>>] }

(***************************************************************************)
(* State.                                                                  *)
(***************************************************************************)
VARIABLES
    pc,       \* where run() is: "start", "check", "compute", "payload",
              \* "open", "dump", "done" (returned) or "failed" (raised)
    err,      \* the exception that ended the run, "none" if none
    feed,     \* the rows the provider returns to this run
    df,       \* the frame run() holds
    ind,      \* the locals computed from it
    resp,     \* what the news request of this run did
    payload,  \* the record being written
    file,     \* spy_signals.json on disk
    clock,    \* the wall clock, in ticks
    runs,     \* invocations so far
    file0,    \* the file as it was when this run started
    prev      \* the last invocation, when it returned normally

vars == <<pc, err, feed, df, ind, resp, payload, file, clock, runs, file0, prev>>

NoPrev == [done |-> FALSE, df |-> NoFrame, resp |-> NoResponse, content |-> <<>>]

InitWith(feeds, files) ==
    /\ pc = "start"
    /\ err = "none"
    /\ feed \in feeds
    /\ df = NoFrame
    /\ ind = NoIndicators
    /\ resp = NoResponse
    /\ payload = NoPayload
    /\ file \in files
    /\ clock = 0
    /\ runs = 1
    /\ file0 = file
    /\ prev = NoPrev

Init == InitWith(Feeds, {NoFile, OldFile})

InitRepeat == InitWith(RepeatFeeds, {OldFile})

\* An exception leaves run(): the process ends with a non-zero status.
Raise(e) ==
    /\ pc' = "failed"
    /\ err' = e

\* Line 37: yf.download returns the rows.
Download ==
    /\ pc = "start"
    /\ df' = feed
    /\ pc' = "check"
    /\ UNCHANGED <<err, feed, ind, resp, payload, file, clock, runs, file0, prev>>

\* Line 37: yf.download raises (network, provider).
DownloadFails ==
    /\ pc = "start"
    /\ Raise("acquisition")
    /\ UNCHANGED <<feed, df, ind, resp, payload, file, clock, runs, file0, prev>>

\* Lines 39-40.
CheckRows ==
    /\ pc = "check"
    /\ IF NotEnoughData(Rows(df)) THEN Raise("insufficient")
       ELSE pc' = "compute" /\ err' = err
    /\ UNCHANGED <<feed, df, ind, resp, payload, file, clock, runs, file0, prev>>

\* Lines 42-54.
Compute ==
    /\ pc = "compute"
    /\ ind' = Indicators(Rows(df))
    /\ pc' = "payload"
    /\ UNCHANGED <<err, feed, df, resp, payload, file, clock, runs, file0, prev>>

\* Lines 56-68: the dict, with the headline and the time read while it is
\* built.
BuildPayload ==
    /\ pc = "payload"
    /\ \E r \in NewsResponses, now \in clock..MaxClock :
         LET news == fetch_spy_news(r)
         IN  /\ resp' = r
             /\ clock' = now
             /\ IF news.raised
                THEN Raise("news") /\ payload' = payload
                ELSE /\ payload' = Payload(ind, news.value, now)
                     /\ pc' = "open"
                     /\ err' = err
    /\ UNCHANGED <<feed, df, ind, file, runs, file0, prev>>

\* Line 71: open(out, "w") succeeds.
OpenOut ==
    /\ pc = "open"
    /\ file' = OpenForWrite(file)
    /\ pc' = "dump"
    /\ UNCHANGED <<err, feed, df, ind, resp, payload, clock, runs, file0, prev>>

\* Line 71: open(out, "w") raises OSError; nothing is touched.
OpenFails ==
    /\ pc = "open"
    /\ Raise("persistence")
    /\ UNCHANGED <<feed, df, ind, resp, payload, file, clock, runs, file0, prev>>

\* Line 72 and the end of the with block: the whole text reaches the file;
\* lines 74-78 print and run() returns.
Dump ==
    /\ pc = "dump"
    /\ file' = WriteEntries(file, Serialize(payload), Len(Serialize(payload)))
    /\ pc' = "done"
    /\ UNCHANGED <<err, feed, df, ind, resp, payload, clock, runs, file0, prev>>

\* Line 72: a write or the flush at close raises OSError (disk full, I/O
\* error) after k entries of the text reached the file.
DumpFails ==
    /\ pc = "dump"
    /\ \E k \in 0..(Len(Serialize(payload)) - 1) :
         file' = WriteEntries(file, Serialize(payload), k)
    /\ Raise("persistence")
    /\ UNCHANGED <<feed, df, ind, resp, payload, clock, runs, file0, prev>>

\* The external trigger starts the program again after it has ended.
NextRun ==
    /\ pc \in {"done", "failed"}
    /\ runs < MaxRuns
    /\ runs' = runs + 1
    /\ prev' = IF pc = "done"
               THEN [done |-> TRUE, df |-> df, resp |-> resp,
                     content |-> file.content]
               ELSE NoPrev
    /\ feed' \in RepeatFeeds
    /\ pc' = "start"
    /\ err' = "none"
    /\ df' = NoFrame
    /\ ind' = NoIndicators
    /\ resp' = NoResponse
    /\ payload' = NoPayload
    /\ file0' = file
    /\ UNCHANGED <<file, clock>>

Next ==
    \/ Download
    \/ DownloadFails
    \/ CheckRows
    \/ Compute
    \/ BuildPayload
    \/ OpenOut
    \/ OpenFails
    \/ Dump
    \/ DumpFails

NextRepeat == Next \/ NextRun

\* One invocation of the program.
Spec == Init /\ [][Next]_vars

\* The program invoked again and again by its trigger.
SpecRepeat == InitRepeat /\ [][NextRepeat]_vars

(***************************************************************************)
(* Properties.                                                             *)
(***************************************************************************)
\* The entry of a stored record under a key.
Field(content, k) ==
    content[CHOOSE i \in 1..Len(content) : content[i].key = k]

\* The rows of the frame run() holds.
rows == Rows(df)

\* The provider answered this run with rows.
Fetched == pc # "start" /\ err # "acquisition"

\* run() returned: the record of this run is the stored one.
Written == pc = "done"

\* d[lo] + ... + d[hi], on prices in units.
RECURSIVE SumUnits(_, _, _)
SumUnits(d, lo, hi) ==
    IF hi < lo THEN 0
    ELSE IF lo = hi THEN d[lo]
    ELSE LET mid == (lo + hi) \div 2
         IN  SumUnits(d, lo, mid) + SumUnits(d, mid + 1, hi)

StrictlyIncreasing(d) == \A i \in 1..(Len(d) - 1) : d[i] < d[i + 1]

\* The same close every day, then one last close strictly below it.
FlatThenDrop(d) ==
    /\ \A i \in 1..(Len(d) - 2) : d[i] = d[i + 1]
    /\ d[Len(d)] < d[Len(d) - 1]

\* The headline request of this run has been made.
NewsAsked == pc \in {"open", "dump", "done"} \/ err = "persistence"

\* The headline request raised, or returned no items.
NewsFailed(r) == r.raises \/ r.items = <<>>

SignalKeys == {"rsi_2_below_30", "three_lower_closes", "above_sma200"}

MetricKeys == {"metrics.last_close", "metrics.rsi2", "metrics.sma200"}

\* C1: once a series of fewer than 210 rows (an empty one included) has
\* been fetched, the run can only end with the insufficient-data error; no
\* indicator is computed, no record is built, and the stored file is the
\* one the run found: never opened, never written.
C1_ShortSeriesAbortsUntouched ==
    (Fetched /\ Len(rows) < MinRows) =>
        /\ pc \in {"check", "failed"}
        /\ (pc = "failed" => err = "insufficient")
        /\ ~ind.computed
        /\ payload = NoPayload
        /\ file = file0

\* C1, its case: 209 rows were fetched, the run failed, an older snapshot
\* is on disk.
C1_Witness ==
    /\ pc = "failed"
    /\ err = "insufficient"
    /\ Len(rows) = MinRows - 1
    /\ file = OldFile

\* C2 (as claimed): whenever a snapshot was stored before the run, a
\* reader finds at every point of the run that snapshot or one whole
\* record, never an empty or partly written file.
C2_ReaderSeesWholeRecord ==
    file0.exists => (file = file0 \/ IsRecord(file.content))

\* C3 (as claimed): whenever run() ends with an error, the stored snapshot
\* is the one stored before the run started.
C3_ErrorLeavesSnapshot ==
    pc = "failed" => file = file0

\* C4 (as claimed): on a series that is up every day the smoothed average
\* loss at the most recent index is 0 and the RSI there is 100, and the
\* run stores rsi2 = 100 and rsi_2_below_30 = 0.
C4_ZeroLossGivesRsi100 ==
    (Written /\ StrictlyIncreasing(rows)) =>
        LET close    == Close(rows)
            n        == Len(close)
            alpha    == Div(Rat(1), Rat(RsiPeriod))
            avg_loss == EwmMean(Loss(Diff(close)), alpha, RsiPeriod, n)
        IN  /\ avg_loss = Rat(0)
            /\ RsiAt(close, RsiPeriod, n) = Rat(100)
            /\ Field(file.content, "metrics.rsi2").num = Rat(100)
            /\ Field(file.content, "rsi_2_below_30").num = Rat(0)

\* C5: the stored three_lower_closes is 1 exactly when the last three
\* closes are strictly decreasing, and 0 otherwise; nothing older counts.
C5_ThreeLowerIffStrictlyDecreasing ==
    Written =>
        LET n == Len(rows)
            v == Field(file.content, "three_lower_closes").num
        IN  /\ v \in {Rat(0), Rat(1)}
            /\ v = Rat(1) <=> (rows[n] < rows[n - 1] /\ rows[n - 1] < rows[n - 2])

\* C5, its case: a record was written for a series whose last step is flat
\* after a fall (so 0 is owed to strictness alone).
C5_Witness ==
    /\ Written
    /\ Len(rows) >= MinRows
    /\ rows[Len(rows)] = rows[Len(rows) - 1]
    /\ rows[Len(rows) - 1] < rows[Len(rows) - 2]
    /\ Field(file.content, "three_lower_closes").num = Rat(0)

\* C6 (as claimed): the stored above_sma200 is 1 exactly when the last
\* close strictly exceeds the arithmetic mean of the trailing 200 closes.
C6_AboveIffCloseExceedsMean ==
    Written =>
        LET n == Len(rows)
        IN  Field(file.content, "above_sma200").num = Rat(1)
                <=> SmaWindow * rows[n] > SumUnits(rows, n - SmaWindow + 1, n)

\* C7: a failing headline request never ends the run; the record built
\* after it has the empty headline; and when the run before returned on
\* the same series with a headline, the record stored now has the same
\* three signals and three metrics.
C7_NewsFailureOnlyEmptiesNews ==
    /\ err # "news"
    /\ (NewsAsked /\ NewsFailed(resp)) => payload.metrics.news = ""
    /\ (Written /\ prev.done /\ Rows(prev.df) = rows
            /\ NewsFailed(resp) /\ ~NewsFailed(prev.resp)) =>
         /\ IsRecord(file.content)
         /\ \A k \in SignalKeys \cup MetricKeys :
                Field(file.content, k) = Field(prev.content, k)
         /\ Field(file.content, "metrics.news").str = ""

\* C7, its case: this run's headline request raised, the run before had a
\* headline, both returned on the same 210 rows.
C7_Witness ==
    /\ Written
    /\ prev.done
    /\ Rows(prev.df) = rows
    /\ Len(rows) >= MinRows
    /\ resp.raises
    /\ Field(prev.content, "metrics.news").str # ""

\* C8: after two runs in sequence on the same series and the same headline
\* the stored file is one whole record, equal to the one the first run
\* stored in every entry but updated_at.
C8_SecondRunRewritesSameRecord ==
    (Written /\ prev.done /\ Rows(prev.df) = rows
        /\ fetch_spy_news(prev.resp).value = fetch_spy_news(resp).value) =>
        /\ IsRecord(file.content)
        /\ IsRecord(prev.content)
        /\ \A i \in 1..Len(Keys) :
               Keys[i] # "updated_at" => file.content[i] = prev.content[i]

\* C8, its case: the second run returned, a second later than the first,
\* on the same rows and the same headline.
C8_Witness ==
    /\ Written
    /\ prev.done
    /\ Rows(prev.df) = rows
    /\ prev.resp = resp
    /\ resp.items # <<>>
    /\ Field(file.content, "updated_at") # Field(prev.content, "updated_at")

\* C9: for a flat series with one last strictly lower close the run stores
\* rsi_2_below_30 = 1, above_sma200 = 0 and three_lower_closes = 0.
C9_FlatThenDropSignals ==
    (Written /\ FlatThenDrop(rows)) =>
        /\ Field(file.content, "rsi_2_below_30").num = Rat(1)
        /\ Field(file.content, "above_sma200").num = Rat(0)
        /\ Field(file.content, "three_lower_closes").num = Rat(0)

\* C9, its case: 210 equal closes, then a close a tenth lower, written.
C9_Witness ==
    /\ Written
    /\ FlatThenDrop(rows)
    /\ Len(rows) = MinRows + 1
    /\ 10 * rows[Len(rows)] = 9 * rows[1]

\* C10 (as claimed): the stored rsi_2_below_30 is 1 when the value of
\* calc_rsi at the most recent index is below 30, and 0 otherwise.
C10_BelowIffRsiBelow30 ==
    Written =>
        (Field(file.content, "rsi_2_below_30").num = Rat(1)
            <=> Less(calc_rsi(Close(rows), RsiPeriod)[Len(rows)], Rat(RsiThreshold)))

\* C10 (amended): the stored rsi_2_below_30 is 1 exactly when the value of
\* calc_rsi at the most recent index, rounded half-even to 2 decimals, is
\* below 30.00; otherwise it is 0.  Stated in three parts: the value
\* computed from the rows is that one; the rows and the value stay as they
\* are until run() returns; the stored entry is the computed value.
C10_BelowIffRoundedRsiBelow30 ==
    /\ [](pc = "payload" =>
            LET r == calc_rsi(Close(rows), RsiPeriod)[Len(rows)]
                p == Pow10(RoundDigits)
            IN  /\ ind.rsi2_below_30 \in {0, 1}
                /\ ind.rsi2_below_30 = 1 <=>
                     (IsFinite(r) /\ RoundHalfEven(p * r[1], r[2])
                                        < p * RsiThreshold))
    /\ [][(pc \in {"payload", "open", "dump"}) =>
            (df' = df /\ ind'.rsi2_below_30 = ind.rsi2_below_30)]_vars
    /\ [](Written =>
            Field(file.content, "rsi_2_below_30").num = Rat(ind.rsi2_below_30))

\* C10, its case: the RSI is below 30 and rounds to 30.00; 0 is stored.
C10_Witness ==
    /\ Written
    /\ rows[Len(rows) - 1] - rows[Len(rows) - 2] = 1204
    /\ Less(calc_rsi(Close(rows), RsiPeriod)[Len(rows)], Rat(RsiThreshold))
    /\ Field(file.content, "metrics.rsi2").num = Rat(RsiThreshold)
    /\ Field(file.content, "rsi_2_below_30").num = Rat(0)

\* C6 (amended): the stored above_sma200 is 1 exactly when the last close
\* rounded half-even to 2 decimals strictly exceeds the mean of the
\* trailing 200 closes rounded half-even to 2 decimals; equal rounded
\* values give 0.
C6_AboveIffRoundedCloseExceedsRoundedMean ==
    Written =>
        LET n     == Len(rows)
            p     == Pow10(RoundDigits)
            close == RoundHalfEven(p * rows[n], PriceScale)
            mean  == RoundHalfEven(p * SumUnits(rows, n - SmaWindow + 1, n),
                                   SmaWindow * PriceScale)
            v     == Field(file.content, "above_sma200").num
        IN  /\ v \in {Rat(0), Rat(1)}
            /\ v = Rat(1) <=> close > mean

\* C6, its case: the last close exceeds the mean by less than the rounding
\* shows; 0 is stored.
C6_Witness ==
    /\ Written
    /\ SmaWindow * rows[Len(rows)] > SumUnits(rows, Len(rows) - SmaWindow + 1, Len(rows))
    /\ Field(file.content, "above_sma200").num = Rat(0)

=============================================================================
